---------------------------- MODULE Spec2Model ----------------------------
(***************************************************************************)
(* SmartRoommate+ matching: the single-app backend (backend/main.py,       *)
(* backend/match_engine.py) and the microservice deployment                *)
(* (services/profile/main.py, services/matching/main.py).                  *)
(*                                                                         *)
(* Units.  Similarities are integers in hundredths of a point (0..10000),  *)
(* compatibility scores are integers in thousandths of a point             *)
(* (0..100000), cosines are integers in 1/10000, distances are integers in *)
(* thousandths of a mile.  The arithmetic is exact; the value sets avoid   *)
(* the decimal ties on which binary floating point and exact arithmetic    *)
(* could round differently.                                                *)
(***************************************************************************)
EXTENDS Integers, Sequences, FiniteSets, TLC

\* ------------------------------------------------------------------ bounds
MaxProfiles == 2
MaxHistory == 1
MaxBudgetSteps == 3
MaxTime == 5
MaxRequests == 4
RateLimit == 2
RateWindow == 2

\* ------------------------------------------------------- program constants
NaN == 0 - 999999
None == 0 - 888888
CosOne == 10000
AcceptanceThreshold == 30000
MaxDistance == 50000
DefaultLimit == 5
MinScore == 0
MaxScore == 100000
MinSimilarity == 0
MaxSimilarity == 10000

Users == {1, 2, 3}

\* ---------------------------------------------------------------- inputs
\* profiles as the forms submit them
ProfileInputs ==
    { [zip_code |-> "75201", rent_budget_min |-> 600, rent_budget_max |-> 800,
       lifestyle_description |-> "quiet home",
       pet_preference |-> "Yes", smoking_preference |-> "No"],
      [zip_code |-> "10001", rent_budget_min |-> 1000, rent_budget_max |-> 1200,
       lifestyle_description |-> "calm nights",
       pet_preference |-> "No", smoking_preference |-> "No"],
      [zip_code |-> "99999", rent_budget_min |-> 800, rent_budget_max |-> 1000,
       lifestyle_description |-> "social life",
       pet_preference |-> "Either", smoking_preference |-> "Yes"] }

\* "zzzzzzzzzz" is a text for which the embedder returns the zero vector
QueryInputs ==
    { [zip_code |-> "75201", rent_budget_min |-> 600, rent_budget_max |-> 800,
       lifestyle_description |-> "quiet home",
       pet_preference |-> "Yes", smoking_preference |-> "No"],
      [zip_code |-> "90210", rent_budget_min |-> 1300, rent_budget_max |-> 1500,
       lifestyle_description |-> "social life",
       pet_preference |-> "No", smoking_preference |-> "Yes"],
      [zip_code |-> "75201", rent_budget_min |-> 1100, rent_budget_max |-> 1300,
       lifestyle_description |-> "zzzzzzzzzz",
       pet_preference |-> "Yes", smoking_preference |-> "No"] }

Limits == {0 - 1, 0, 1, DefaultLimit}
MaxMatchesInputs == {1, DefaultLimit}

\* the fault injected into one request: none, the embedder raises on the
\* encode call for candidate `at`, or the commit of the session raises
NoFault == [kind |-> "none", at |-> 0]
EmbedFaults(n) == { [kind |-> "embed", at |-> i] : i \in 1..n }
CommitFault == [kind |-> "commit", at |-> 0]

\* db.query(...).all() raises: the profile table cannot be read
ReadFault == [kind |-> "read", at |-> 0]

\* the request is aborted (an exception, a cancellation) after `at` history
\* rows were added to its session
AbortFault(at) == [kind |-> "abort", at |-> at]

VARIABLES deployment, profiles, svcProfiles, matchHistory, resp, session,
          inflight, now, rate_limiter, redis, decisions

\* the state of the gateway and of the requests under way: the requests
\* received and not yet handled, the clock, the gateway's RateLimiter
\* object, the sorted sets of the Redis server, the decisions the limiter
\* returned
gatewayVars == <<inflight, now, rate_limiter, redis, decisions>>

vars == <<deployment, profiles, svcProfiles, matchHistory, resp, session,
          gatewayVars>>

\* --------------------------------------------------------------- embedder
\* the cosine of the embeddings of two profile texts, in 1/10000
Cosine(text1, text2) ==
    IF text1 = text2 THEN CosOne
    ELSE LET pair == {text1, text2}
         IN  CASE pair = {"quiet home", "calm nights"} -> 2000
               [] pair = {"quiet home", "social life"} -> 1992
               [] pair = {"calm nights", "social life"} -> 0 - CosOne
               [] OTHER -> 0

\* model.encode([text1, text2]) followed by the cosine of the two vectors
Encode(text1, text2, faulty) ==
    IF faulty THEN [kind |-> "raise", cos |-> 0]
    ELSE IF "zzzzzzzzzz" \in {text1, text2} THEN [kind |-> "zero", cos |-> 0]
    ELSE [kind |-> "ok", cos |-> Cosine(text1, text2)]

\* ------------------------------------------------------------ arithmetic
Min(a, b) == IF a <= b THEN a ELSE b
Max(a, b) == IF a >= b THEN a ELSE b

\* round(x, 1): x in thousandths, result in thousandths, a multiple of 100;
\* nearest, ties to even
RoundTo1(x) ==
    LET q == x \div 100
        r == x % 100
    IN  IF r < 50 THEN q * 100
        ELSE IF r > 50 THEN (q + 1) * 100
        ELSE IF q % 2 = 0 THEN q * 100 ELSE (q + 1) * 100

\* utils.normalize_score: both comparisons are false for NaN, which is
\* returned unchanged
normalize_score(score, min_val, max_val) ==
    IF score = NaN THEN NaN
    ELSE IF score < min_val THEN min_val
    ELSE IF score > max_val THEN max_val
    ELSE score

\* ------------------------------------------------------------- geocoding
BeCoordinates(zip_code) ==
    CASE zip_code = "75201" -> "Dallas"
      [] zip_code = "10001" -> "NewYork"
      [] zip_code = "90210" -> "BeverlyHills"
      [] zip_code = "60601" -> "Chicago"
      [] zip_code = "02101" -> "Boston"
      [] OTHER -> "Dallas"

SvcCoordinates(zip_code) ==
    CASE zip_code \in {"75201", "75202"} -> "Dallas"
      [] zip_code \in {"78701", "78702"} -> "Austin"
      [] zip_code = "10001" -> "NewYork"
      [] zip_code = "90210" -> "BeverlyHills"
      [] OTHER -> "Dallas"

\* haversine distance (R = 3959 miles) between the mock coordinates, in
\* thousandths of a mile
calculate_distance(c1, c2) ==
    IF c1 = c2 THEN 0
    ELSE LET pair == {c1, c2}
         IN  CASE pair = {"Dallas", "NewYork"} -> 1372026
               [] pair = {"Dallas", "Austin"} -> 182132
               [] pair = {"Dallas", "BeverlyHills"} -> 1247066
               [] pair = {"Dallas", "Chicago"} -> 804698
               [] pair = {"Dallas", "Boston"} -> 1549237
               [] pair = {"NewYork", "Austin"} -> 1512578
               [] pair = {"NewYork", "BeverlyHills"} -> 2453635
               [] pair = {"NewYork", "Chicago"} -> 711230
               [] pair = {"NewYork", "Boston"} -> 188111
               [] pair = {"Austin", "BeverlyHills"} -> 1234692
               [] pair = {"Austin", "Chicago"} -> 979572
               [] pair = {"Austin", "Boston"} -> 1694066
               [] pair = {"BeverlyHills", "Chicago"} -> 1749520
               [] pair = {"BeverlyHills", "Boston"} -> 2598141
               [] pair = {"Chicago", "Boston"} -> 848621
               [] OTHER -> 0

\* the keys of the two mock_coords tables
BeKnownZips == {"75201", "10001", "90210", "60601", "02101"}

SvcKnownZips == {"75201", "75202", "78701", "78702", "10001", "90210"}

BeCheckLocationMatch(zip1, zip2) ==
    LET distance == calculate_distance(BeCoordinates(zip1), BeCoordinates(zip2))
    IN  [match |-> distance <= MaxDistance, distance |-> distance]

SvcCheckLocationMatch(zip1, zip2) ==
    LET distance == calculate_distance(SvcCoordinates(zip1), SvcCoordinates(zip2))
    IN  [match |-> distance <= MaxDistance, distance |-> distance]

\* ranges that only touch do not overlap
CheckBudgetMatchStrict(budget_min1, budget_max1, budget_min2, budget_max2) ==
    ~(budget_max1 <= budget_min2 \/ budget_max2 <= budget_min1)

check_budget_match(budget_min1, budget_max1, budget_min2, budget_max2) ==
    ~(budget_max1 < budget_min2 \/ budget_max2 < budget_min1)

\* ------------------------------------------------------------ similarity
\* create_profile_text / create_profile_text_from_create /
\* create_profile_text_from_dict: the labelled lines of the text fields
ProfileText(profile) == <<"Lifestyle:", profile.lifestyle_description>>

\* (similarity + 1) * 50 in hundredths of a point
CosToPercent(cos) == ((cos + CosOne) * 50) \div 100

\* backend calculate_ai_similarity: no try/except; max(0, min(100, nan)) is
\* 100 because every comparison with NaN is false.  "raised" tells that the
\* exception leaves the function.
BeAiSimilarity(text1, text2, faulty) ==
    LET o == Encode(text1[2], text2[2], faulty)
    IN  IF o.kind = "raise" THEN [raised |-> TRUE, value |-> 0]
        ELSE IF o.kind = "zero" THEN [raised |-> FALSE, value |-> MaxSimilarity]
        ELSE [raised |-> FALSE,
              value |-> Max(MinSimilarity, Min(MaxSimilarity, CosToPercent(o.cos)))]

\* service calculate_ai_similarity: except Exception -> 0.0
SvcAiSimilarity(text1, text2, faulty) ==
    LET o == Encode(text1[2], text2[2], faulty)
    IN  IF o.kind = "raise" THEN 0
        ELSE IF o.kind = "zero" THEN NaN
        ELSE normalize_score(CosToPercent(o.cos), MinSimilarity, MaxSimilarity)

\* ai*0.5 + location_score*0.3 + budget_score*0.2, in thousandths
FinalScore(ai_similarity, location_match, budget_match) ==
    IF ai_similarity = NaN THEN NaN
    ELSE ai_similarity * 5
         + (IF location_match THEN MaxSimilarity ELSE 0) * 3
         + (IF budget_match THEN MaxSimilarity ELSE 0) * 2

\* ------------------------------------------------------- list handling
\* list.sort(key=compatibility_score, reverse=True): stable, an element goes
\* after every element whose score is greater than or equal to its own
\* an element goes before the elements of equal score: ties are reversed
InsertDescBeforeTies(sorted, x) ==
    LET k == Cardinality({i \in 1..Len(sorted) :
                            sorted[i].compatibility_score > x.compatibility_score})
    IN  SubSeq(sorted, 1, k) \o <<x>> \o SubSeq(sorted, k + 1, Len(sorted))

InsertDesc(sorted, x) ==
    LET k == Cardinality({i \in 1..Len(sorted) :
                            sorted[i].compatibility_score >= x.compatibility_score})
    IN  SubSeq(sorted, 1, k) \o <<x>> \o SubSeq(sorted, k + 1, Len(sorted))

RECURSIVE SortFrom(_, _, _)
SortFrom(list, i, sorted) ==
    IF i > Len(list) THEN sorted
    ELSE SortFrom(list, i + 1, InsertDesc(sorted, list[i]))

\* the sort left out
SortDescSkipped(list) == list

SortDesc(list) == SortFrom(list, 1, <<>>)

\* list[:limit]; a negative limit counts from the end of the list
PySlicePrefix(list, limit) ==
    IF limit >= 0 THEN SubSeq(list, 1, Min(limit, Len(list)))
    ELSE SubSeq(list, 1, Max(0, Len(list) + limit))

\* --------------------------------------------------- backend match engine
\* the filter left out
BeAcceptAll(final_score) == TRUE

BeAccept(final_score) == final_score >= AcceptanceThreshold

\* one iteration of the loop of MatchingEngine.find_matches
BeScoreCandidate(new_profile, existing_profile, faulty) ==
    LET ai == BeAiSimilarity(ProfileText(new_profile),
                             ProfileText(existing_profile), faulty)
        loc == BeCheckLocationMatch(new_profile.zip_code, existing_profile.zip_code)
        budget_match == check_budget_match(
            new_profile.rent_budget_min, new_profile.rent_budget_max,
            existing_profile.rent_budget_min, existing_profile.rent_budget_max)
        final_score == FinalScore(ai.value, loc.match, budget_match)
    IN  [raised |-> ai.raised,
         accepted |-> BeAccept(final_score),
         result |-> [id |-> existing_profile.id,
                     compatibility_score |-> RoundTo1(final_score),
                     location_match |-> loc.match,
                     budget_match |-> budget_match,
                     distance_miles |-> IF loc.match THEN RoundTo1(loc.distance)
                                        ELSE None]]

LoopStart == [raised |-> FALSE, matches |-> <<>>, embedCalls |-> 0, geoCalls |-> 0]

\* the loop over existing_profiles; an exception of the embedder leaves the
\* loop (and the call) at the candidate where it is raised
RECURSIVE BeLoop(_, _, _, _, _)
BeLoop(pool, new_profile, fault, i, acc) ==
    IF i > Len(pool) THEN acc
    ELSE LET c == BeScoreCandidate(new_profile, pool[i],
                                   fault.kind = "embed" /\ fault.at = i)
         IN  IF c.raised
             THEN [acc EXCEPT !.raised = TRUE, !.embedCalls = @ + 1]
             ELSE BeLoop(pool, new_profile, fault, i + 1,
                         [acc EXCEPT !.embedCalls = @ + 1,
                                     !.geoCalls = @ + 2,
                                     !.matches = IF c.accepted
                                                 THEN Append(@, c.result)
                                                 ELSE @])

\* matches.sort(...); return matches[:limit]
BeRank(loop, limit) ==
    IF loop.raised
    THEN [status |-> "error", matches |-> <<>>,
          embedCalls |-> loop.embedCalls, geoCalls |-> loop.geoCalls]
    ELSE [status |-> "ok",
          matches |-> PySlicePrefix(SortDesc(loop.matches), limit),
          embedCalls |-> loop.embedCalls, geoCalls |-> loop.geoCalls]

\* MatchingEngine.find_matches(new_profile, db, limit)
BeFindMatches(pool, new_profile, limit, fault) ==
    IF fault.kind = "read"
    THEN [status |-> "error", matches |-> <<>>, embedCalls |-> 0, geoCalls |-> 0]
    ELSE IF pool = <<>>
    THEN [status |-> "ok", matches |-> <<>>, embedCalls |-> 0, geoCalls |-> 0]
    ELSE BeRank(BeLoop(pool, new_profile, fault, 1, LoopStart), limit)

\* ------------------------------------------------------- matching service
SvcAccept(compatibility_score) ==
    compatibility_score # NaN /\ compatibility_score >= AcceptanceThreshold

\* the dictionary returned by the except branch of
\* calculate_compatibility_score
CompatibilityFallback ==
    [compatibility_score |-> 0, ai_similarity |-> 0, location_match |-> FALSE,
     budget_match |-> FALSE, distance_miles |-> None, match_reasons |-> <<>>]

\* dict.get(key) of a key the dictionary does not hold
NoValue == "None"

\* an entry of match_reasons; the "Close proximity" entry carries the
\* distance formatted with one decimal
Reason(text) == [text |-> text, miles |-> None]

\* the match_reasons list as the if statements append to it
MatchReasons(profile1, profile2, ai_similarity, location_match, distance, budget_match) ==
    (IF ai_similarity # NaN /\ ai_similarity > 7000
     THEN <<Reason("High lifestyle compatibility")>> ELSE <<>>)
    \o (IF location_match
        THEN <<[text |-> "Close proximity", miles |-> RoundTo1(distance)]>>
        ELSE <<>>)
    \o (IF budget_match THEN <<Reason("Budget compatibility")>> ELSE <<>>)
    \o (IF (IF "pet_preference" \in DOMAIN profile1
            THEN profile1.pet_preference ELSE NoValue)
           = (IF "pet_preference" \in DOMAIN profile2
              THEN profile2.pet_preference ELSE NoValue)
        THEN <<Reason("Pet preference match")>> ELSE <<>>)
    \o (IF (IF "smoking_preference" \in DOMAIN profile1
            THEN profile1.smoking_preference ELSE NoValue)
           = (IF "smoking_preference" \in DOMAIN profile2
              THEN profile2.smoking_preference ELSE NoValue)
        THEN <<Reason("Smoking preference match")>> ELSE <<>>)

\* MatchingEngine.calculate_compatibility_score(profile1, profile2); comparing
\* a budget that is None raises TypeError, which the except branch answers
calculate_compatibility_score(profile1, profile2, faulty) ==
    IF None \in {profile1.rent_budget_min, profile1.rent_budget_max,
                 profile2.rent_budget_min, profile2.rent_budget_max}
    THEN CompatibilityFallback
    ELSE
    LET ai_similarity == SvcAiSimilarity(ProfileText(profile1),
                                         ProfileText(profile2), faulty)
        loc == SvcCheckLocationMatch(profile1.zip_code, profile2.zip_code)
        budget_match == check_budget_match(
            profile1.rent_budget_min, profile1.rent_budget_max,
            profile2.rent_budget_min, profile2.rent_budget_max)
        final_score == FinalScore(ai_similarity, loc.match, budget_match)
    IN  [compatibility_score |-> normalize_score(final_score, MinScore, MaxScore),
         ai_similarity |-> ai_similarity,
         location_match |-> loc.match,
         budget_match |-> budget_match,
         distance_miles |-> IF loc.match THEN loc.distance ELSE None,
         match_reasons |-> MatchReasons(profile1, profile2, ai_similarity,
                                        loc.match, loc.distance, budget_match)]

\* db.query(UserProfile).filter(is_active == True, user_id != user_id).all()
\* the filter on the caller's own profile left out
SvcCandidatesWithSelf(rows, user_id) ==
    SelectSeq(rows, LAMBDA r : r.is_active)

SvcCandidates(rows, user_id) ==
    SelectSeq(rows, LAMBDA r : r.is_active /\ r.user_id # user_id)

\* the scoring loop of POST /match
RECURSIVE SvcLoop(_, _, _, _, _)
SvcLoop(pool, profile_data, fault, i, acc) ==
    IF i > Len(pool) THEN acc
    ELSE LET c == calculate_compatibility_score(
                      profile_data, pool[i], fault.kind = "embed" /\ fault.at = i)
         IN  SvcLoop(pool, profile_data, fault, i + 1,
                     [acc EXCEPT !.embedCalls = @ + 1,
                                 !.geoCalls = @ + 2,
                                 !.matches =
                                    IF SvcAccept(c.compatibility_score)
                                    THEN Append(@, [id |-> pool[i].id] @@ c)
                                    ELSE @])

\* max_matches = min(matching_request.max_matches, len(matches));
\* matches = matches[:max_matches]
SvcTruncate(matches, max_matches) ==
    PySlicePrefix(matches, Min(max_matches, Len(matches)))

\* user_id and matched_user_id exchanged
HistoryEntrySwapped(user_id, match) ==
    [user_id |-> match.id,
     matched_user_id |-> user_id,
     compatibility_score |-> match.compatibility_score,
     ai_similarity |-> match.ai_similarity,
     location_match |-> match.location_match,
     budget_match |-> match.budget_match,
     distance_miles |-> match.distance_miles]

\* the MatchHistory row added for one returned match
HistoryEntry(user_id, match) ==
    [user_id |-> user_id,
     matched_user_id |-> match.id,
     compatibility_score |-> match.compatibility_score,
     ai_similarity |-> match.ai_similarity,
     location_match |-> match.location_match,
     budget_match |-> match.budget_match,
     distance_miles |-> match.distance_miles]

RECURSIVE HistoryEntries(_, _, _)
HistoryEntries(user_id, matches, i) ==
    IF i > Len(matches) THEN <<>>
    ELSE <<HistoryEntry(user_id, matches[i])>> \o HistoryEntries(user_id, matches, i + 1)

\* ----------------------------------------------------------------- state
NoQuery == [zip_code |-> "", rent_budget_min |-> 0, rent_budget_max |-> 0,
            lifestyle_description |-> ""]

Response(op, status, matches, embedCalls, geoCalls, appends, user_id, q, limit, fault) ==
    [op |-> op, status |-> status, matches |-> matches,
     embedCalls |-> embedCalls, geoCalls |-> geoCalls, appends |-> appends,
     user_id |-> user_id, query |-> q, limit |-> limit, fault |-> fault]

PlainResponse(op, status) ==
    Response(op, status, <<>>, 0, 0, 0, 0, NoQuery, 0, NoFault)

Idle == PlainResponse("none", "ok")

\* the SQLAlchemy session of the request being handled: no request is being
\* handled, nothing is pending
NoSession == [pc |-> "closed"]

\* no request is under way, the clock is at its origin, the limiter was
\* constructed without a Redis connection and nothing is recorded
NoRateLimiter == [class |-> "gateway", redis_client |-> FALSE, memory_store |-> <<>>]

GatewayInit ==
    /\ inflight = {}
    /\ now = 0
    /\ rate_limiter = NoRateLimiter
    /\ redis = <<>>
    /\ decisions = <<>>

Init ==
    /\ deployment \in {"backend", "services"}
    /\ profiles = <<>>
    /\ svcProfiles = <<>>
    /\ matchHistory = <<>>
    /\ resp = Idle
    /\ session = NoSession
    /\ GatewayInit

\* the budget bounds exchanged in the stored row
BeRowSwapped(profile, id) ==
    [id |-> id] @@ [profile EXCEPT !.rent_budget_min = profile.rent_budget_max,
                                   !.rent_budget_max = profile.rent_budget_min]

\* the row INSERTed for a profile: the primary key is the next integer
BeRow(profile, id) == [id |-> id] @@ profile

\* the field constraints of UserProfileCreate on the budgets (the other
\* fields of the inputs are well formed); there is no cross-field validator
UserProfileCreateValid(profile) ==
    profile.rent_budget_min >= 0 /\ profile.rent_budget_max >= 0

\* backend POST /api/profiles
BeCreateProfile(profile) ==
    /\ deployment = "backend"
    /\ resp = Idle
    /\ Len(profiles) < MaxProfiles
    /\ IF ~UserProfileCreateValid(profile)
       THEN /\ resp' = PlainResponse("be_create", "invalid")
            /\ UNCHANGED profiles
       ELSE /\ profiles' = Append(profiles, BeRow(profile, Len(profiles) + 1))
            /\ resp' = PlainResponse("be_create", "ok")
    /\ UNCHANGED <<deployment, svcProfiles, matchHistory, session, gatewayVars>>

\* backend POST /api/match: the query profile is saved first, then ranked
\* against every stored profile with the default limit
BeMatch(q, fault) ==
    /\ deployment = "backend"
    /\ resp = Idle
    /\ Len(profiles) < MaxProfiles
    /\ IF ~UserProfileCreateValid(q)
       THEN /\ resp' = PlainResponse("be_match", "invalid")
            /\ UNCHANGED profiles
       ELSE LET saved == Append(profiles, BeRow(q, Len(profiles) + 1))
                r == BeFindMatches(saved, q, DefaultLimit, fault)
            IN  /\ profiles' = saved
                /\ resp' = Response("be_match", r.status, r.matches, r.embedCalls,
                                    r.geoCalls, 0, 0, q, DefaultLimit, fault)
    /\ UNCHANGED <<deployment, svcProfiles, matchHistory, session, gatewayVars>>

\* a direct call of MatchingEngine.find_matches(new_profile, db, limit)
BeEngineFindMatches(q, limit, fault) ==
    /\ deployment = "backend"
    /\ resp = Idle
    /\ LET r == BeFindMatches(profiles, q, limit, fault)
       IN  resp' = Response("be_find_matches", r.status, r.matches, r.embedCalls,
                            r.geoCalls, 0, 0, q, limit, fault)
    /\ UNCHANGED <<deployment, profiles, svcProfiles, matchHistory, session, gatewayVars>>

\* profile service validate_profile_data (the ZIP codes and ages of the
\* inputs are well formed)
validate_profile_data(profile_data) ==
    profile_data.rent_budget_min <= profile_data.rent_budget_max

\* the existence check looks at active rows only
SvcCreateProfileIfNoneActive(user_id, profile_data) ==
    /\ deployment = "services"
    /\ resp = Idle
    /\ Len(svcProfiles) < MaxProfiles
    /\ IF ~UserProfileCreateValid(profile_data)
          \/ ~validate_profile_data(profile_data)
       THEN /\ resp' = PlainResponse("svc_create", "invalid")
            /\ UNCHANGED svcProfiles
       ELSE IF \E i \in 1..Len(svcProfiles) :
                 svcProfiles[i].user_id = user_id /\ svcProfiles[i].is_active
       THEN /\ resp' = PlainResponse("svc_create", "exists")
            /\ UNCHANGED svcProfiles
       ELSE /\ svcProfiles' = Append(svcProfiles,
                  [id |-> Len(svcProfiles) + 1, user_id |-> user_id,
                   is_active |-> TRUE] @@ profile_data)
            /\ resp' = PlainResponse("svc_create", "ok")
    /\ UNCHANGED <<deployment, profiles, matchHistory, session, gatewayVars>>

\* profile service POST /profiles
SvcCreateProfile(user_id, profile_data) ==
    /\ deployment = "services"
    /\ resp = Idle
    /\ Len(svcProfiles) < MaxProfiles
    /\ IF ~UserProfileCreateValid(profile_data)
          \/ ~validate_profile_data(profile_data)
       THEN /\ resp' = PlainResponse("svc_create", "invalid")
            /\ UNCHANGED svcProfiles
       ELSE IF \E i \in 1..Len(svcProfiles) : svcProfiles[i].user_id = user_id
       THEN /\ resp' = PlainResponse("svc_create", "exists")
            /\ UNCHANGED svcProfiles
       ELSE /\ svcProfiles' = Append(svcProfiles,
                  [id |-> Len(svcProfiles) + 1, user_id |-> user_id,
                   is_active |-> TRUE] @@ profile_data)
            /\ resp' = PlainResponse("svc_create", "ok")
    /\ UNCHANGED <<deployment, profiles, matchHistory, session, gatewayVars>>

\* the first row of the user, active or not
ActiveProfileOrDeleted(rows, user_id) ==
    LET hits == {i \in 1..Len(rows) : rows[i].user_id = user_id}
    IN  IF hits = {} THEN 0 ELSE CHOOSE i \in hits : \A j \in hits : i <= j

\* db.query(UserProfile).filter(user_id == user_id, is_active == True)
\* .first(): the position of the row, 0 for None
ActiveProfile(rows, user_id) ==
    LET hits == {i \in 1..Len(rows) : rows[i].user_id = user_id /\ rows[i].is_active}
    IN  IF hits = {} THEN 0 ELSE CHOOSE i \in hits : \A j \in hits : i <= j

\* the answer of a profile-service handler to the user
ProfileResponse(op, status, user_id) ==
    Response(op, status, <<>>, 0, 0, 0, user_id, NoQuery, 0, NoFault)

\* profile service GET /profiles/me
SvcGetMyProfile(user_id) ==
    /\ deployment = "services"
    /\ resp = Idle
    /\ resp' = IF ActiveProfile(svcProfiles, user_id) = 0
               THEN ProfileResponse("svc_get_profile", "not_found", user_id)
               ELSE ProfileResponse("svc_get_profile", "ok", user_id)
    /\ UNCHANGED <<deployment, profiles, svcProfiles, matchHistory, session, gatewayVars>>

\* profile service PUT /profiles/me
SvcUpdateProfile(user_id, profile_data) ==
    /\ deployment = "services"
    /\ resp = Idle
    /\ LET i == ActiveProfile(svcProfiles, user_id)
       IN  IF ~UserProfileCreateValid(profile_data)
              \/ ~validate_profile_data(profile_data)
           THEN /\ resp' = ProfileResponse("svc_update", "invalid", user_id)
                /\ UNCHANGED svcProfiles
           ELSE IF i = 0
           THEN /\ resp' = ProfileResponse("svc_update", "not_found", user_id)
                /\ UNCHANGED svcProfiles
           ELSE /\ svcProfiles' = [svcProfiles EXCEPT ![i] = profile_data @@ @]
                /\ resp' = ProfileResponse("svc_update", "ok", user_id)
    /\ UNCHANGED <<deployment, profiles, matchHistory, session, gatewayVars>>

\* profile service PUT /profiles/me/social-links (a NULL column is an
\* absent field of the row)
SvcUpdateSocialLinks(user_id, instagram_link) ==
    /\ deployment = "services"
    /\ resp = Idle
    /\ LET i == ActiveProfile(svcProfiles, user_id)
       IN  IF i = 0
           THEN /\ resp' = ProfileResponse("svc_social_links", "not_found", user_id)
                /\ UNCHANGED svcProfiles
           ELSE /\ svcProfiles' =
                     [svcProfiles EXCEPT ![i] =
                        [instagram_link |-> instagram_link] @@ @]
                /\ resp' = ProfileResponse("svc_social_links", "ok", user_id)
    /\ UNCHANGED <<deployment, profiles, matchHistory, session, gatewayVars>>

\* profile service DELETE /profiles/me: the soft delete
SvcDeleteProfile(user_id) ==
    /\ deployment = "services"
    /\ resp = Idle
    /\ LET i == ActiveProfile(svcProfiles, user_id)
       IN  IF i = 0
           THEN /\ resp' = ProfileResponse("svc_delete", "not_found", user_id)
                /\ UNCHANGED svcProfiles
           ELSE /\ svcProfiles' = [svcProfiles EXCEPT ![i].is_active = FALSE]
                /\ resp' = ProfileResponse("svc_delete", "ok", user_id)
    /\ UNCHANGED <<deployment, profiles, matchHistory, session, gatewayVars>>

\* the candidates are every profile of another user, active or not
SvcMatchInactiveToo(user_id, q, max_matches, fault) ==
    /\ deployment = "services"
    /\ resp = Idle
    /\ Len(matchHistory) < MaxHistory
    /\ LET pool == SelectSeq(svcProfiles, LAMBDA r : r.user_id # user_id)
           loop == SvcLoop(pool, q, fault, 1, LoopStart)
           matches == SvcTruncate(SortDesc(loop.matches), max_matches)
       IN  IF pool = <<>>
           THEN /\ resp' = Response("svc_match", "ok", <<>>, 0, 0, 0,
                                    user_id, q, max_matches, fault)
                /\ UNCHANGED matchHistory
           ELSE /\ matchHistory' = matchHistory \o HistoryEntries(user_id, matches, 1)
                /\ resp' = Response("svc_match", "ok", matches, loop.embedCalls,
                                    loop.geoCalls, Len(matches),
                                    user_id, q, max_matches, fault)
    /\ UNCHANGED <<deployment, profiles, svcProfiles, session, gatewayVars>>

\* matching service POST /match
SvcMatch(user_id, q, max_matches, fault) ==
    /\ deployment = "services"
    /\ resp = Idle
    /\ Len(matchHistory) < MaxHistory
    /\ LET pool == SvcCandidates(svcProfiles, user_id)
           loop == SvcLoop(pool, q, fault, 1, LoopStart)
           matches == SvcTruncate(SortDesc(loop.matches), max_matches)
       IN  IF pool = <<>>
           THEN /\ resp' = Response("svc_match", "ok", <<>>, 0, 0, 0,
                                    user_id, q, max_matches, fault)
                /\ UNCHANGED matchHistory
           ELSE IF fault.kind = "commit"
           THEN \* db.commit() raises: except Exception -> "Matching failed"
                /\ resp' = Response("svc_match", "error", <<>>, loop.embedCalls,
                                    loop.geoCalls, Len(matches),
                                    user_id, q, max_matches, fault)
                /\ UNCHANGED matchHistory
           ELSE /\ matchHistory' = matchHistory \o HistoryEntries(user_id, matches, 1)
                /\ resp' = Response("svc_match", "ok", matches, loop.embedCalls,
                                    loop.geoCalls, Len(matches),
                                    user_id, q, max_matches, fault)
    /\ UNCHANGED <<deployment, profiles, svcProfiles, session, gatewayVars>>

\* ------------------------------------------- requests taken step by step
\* MatchingRequest.max_matches: Field(default=5, ge=1, le=20)
LimitMin == 1
LimitMax == 20

\* the request body of POST /match as pydantic validates it before the
\* handler runs: the budget fields are not compared with each other
MatchingRequestValid(q, max_matches) ==
    /\ UserProfileCreateValid(q)
    /\ max_matches >= LimitMin
    /\ max_matches <= LimitMax

\* the exception answered as a successful response without matches
MatchingFailedAsEmpty(user_id, q, max_matches, fault) ==
    Response("svc_match", "ok", <<>>, 0, 0, 0, user_id, q, max_matches, fault)

\* except Exception: create_error_response("Matching failed", status_code=500)
MatchingFailed(user_id, q, max_matches, fault) ==
    Response("svc_match", "error", <<>>, 0, 0, 0, user_id, q, max_matches, fault)

\* the row is written to the table at once, as under autocommit
SessionAddAutocommit(store, pending, entry) ==
    [store |-> Append(store, entry), pending |-> pending]

\* db.add(match_history) on a session made with autocommit=False,
\* autoflush=False: the object is pending in the session, the table is not
\* written
SessionAdd(store, pending, entry) ==
    [store |-> store, pending |-> Append(pending, entry)]

\* POST /match up to the loop that saves the history: validation, the
\* candidate query, scoring, sort and truncation
SvcMatchBegin(user_id, q, max_matches, fault) ==
    /\ deployment = "services"
    /\ resp = Idle
    /\ session = NoSession
    /\ Len(matchHistory) < MaxHistory
    /\ IF ~MatchingRequestValid(q, max_matches)
       THEN /\ resp' = Response("svc_match", "invalid", <<>>, 0, 0, 0,
                                user_id, q, max_matches, fault)
            /\ UNCHANGED session
       ELSE IF fault.kind = "read"
       THEN /\ resp' = MatchingFailed(user_id, q, max_matches, fault)
            /\ UNCHANGED session
       ELSE LET pool == SvcCandidates(svcProfiles, user_id)
                loop == SvcLoop(pool, q, fault, 1, LoopStart)
                matches == SvcTruncate(SortDesc(loop.matches), max_matches)
            IN  IF pool = <<>>
                THEN /\ resp' = Response("svc_match", "ok", <<>>, 0, 0, 0,
                                         user_id, q, max_matches, fault)
                     /\ UNCHANGED session
                ELSE /\ session' = [pc |-> "adding", user_id |-> user_id,
                                    query |-> q, max_matches |-> max_matches,
                                    fault |-> fault, matches |-> matches,
                                    pending |-> <<>>,
                                    embedCalls |-> loop.embedCalls,
                                    geoCalls |-> loop.geoCalls]
                     /\ UNCHANGED resp
    /\ UNCHANGED <<deployment, profiles, svcProfiles, matchHistory, gatewayVars>>

\* one iteration of "for match in matches: ... db.add(match_history)"
SvcMatchAdd ==
    /\ session.pc = "adding"
    /\ Len(session.pending) < Len(session.matches)
    /\ LET match == session.matches[Len(session.pending) + 1]
           r == SessionAdd(matchHistory, session.pending,
                           HistoryEntry(session.user_id, match))
       IN  /\ matchHistory' = r.store
           /\ session' = [session EXCEPT !.pending = r.pending]
    /\ UNCHANGED <<deployment, profiles, svcProfiles, resp, gatewayVars>>

\* db.commit() and the response; a commit that raises writes nothing
SvcMatchCommit ==
    /\ session.pc = "adding"
    /\ Len(session.pending) = Len(session.matches)
    /\ IF session.fault.kind = "commit"
       THEN /\ resp' = MatchingFailed(session.user_id, session.query,
                                      session.max_matches, session.fault)
            /\ UNCHANGED matchHistory
       ELSE /\ matchHistory' = matchHistory \o session.pending
            /\ resp' = Response("svc_match", "ok", session.matches,
                                session.embedCalls, session.geoCalls,
                                Len(session.matches), session.user_id,
                                session.query, session.max_matches, session.fault)
    /\ session' = NoSession
    /\ UNCHANGED <<deployment, profiles, svcProfiles, gatewayVars>>

\* an exception raised while the history rows are built and added: the
\* handler answers "Matching failed" and get_db closes the session, which
\* drops its pending objects
SvcMatchAbort ==
    /\ session.pc = "adding"
    /\ resp' = MatchingFailed(session.user_id, session.query,
                              session.max_matches,
                              AbortFault(Len(session.pending)))
    /\ session' = NoSession
    /\ UNCHANGED <<deployment, profiles, svcProfiles, matchHistory, gatewayVars>>

\* ----------------------------------------------- reading the history
\* Python's a // b for b # 0 (floor division)
FloorDiv(a, b) == IF b > 0 THEN a \div b ELSE (0 - a) \div (0 - b)

RECURSIVE Reverse(_)
Reverse(seq) ==
    IF seq = <<>> THEN <<>> ELSE Reverse(Tail(seq)) \o <<Head(seq)>>

\* the rows of match_history with their primary keys; rows are inserted in
\* the order of the sequence and created_at grows with the primary key
HistoryRows ==
    [i \in 1..Len(matchHistory) |-> [id |-> i] @@ matchHistory[i]]

\* query.filter(MatchHistory.user_id == user_id)
\*      .order_by(MatchHistory.created_at.desc())
OwnHistory(rows, user_id) ==
    Reverse(SelectSeq(rows, LAMBDA r : r.user_id = user_id))

\* .offset(offset).limit(per_page) as SQLite evaluates them: a negative
\* OFFSET counts as 0 and a negative LIMIT is no limit
OffsetLimit(rows, offset, per_page) ==
    LET first == Max(0, offset) + 1
        last == IF per_page < 0 THEN Len(rows)
                ELSE Min(Len(rows), first + per_page - 1)
    IN  SubSeq(rows, first, last)

\* the dictionary built for one row of the page
HistoryItem(row) ==
    [id |-> row.id, matched_user_id |-> row.matched_user_id,
     compatibility_score |-> row.compatibility_score,
     ai_similarity |-> row.ai_similarity,
     location_match |-> row.location_match,
     budget_match |-> row.budget_match,
     distance_miles |-> row.distance_miles]

\* matching service GET /match-history; per_page = 0 raises
\* ZeroDivisionError in the page count, answered by the except branch
SvcGetMatchHistory(user_id, page, per_page) ==
    /\ deployment = "services"
    /\ resp = Idle
    /\ LET own == OwnHistory(HistoryRows, user_id)
           history == OffsetLimit(own, (page - 1) * per_page, per_page)
       IN  resp' =
             IF per_page = 0
             THEN [op |-> "match_history", status |-> "error", user_id |-> user_id,
                   page |-> page, per_page |-> per_page, items |-> <<>>,
                   total |-> 0, pages |-> 0]
             ELSE [op |-> "match_history", status |-> "ok", user_id |-> user_id,
                   page |-> page, per_page |-> per_page,
                   items |-> [i \in 1..Len(history) |-> HistoryItem(history[i])],
                   total |-> Len(own),
                   pages |-> FloorDiv(Len(own) + per_page - 1, per_page)]
    /\ UNCHANGED <<deployment, profiles, svcProfiles, matchHistory, session, gatewayVars>>

RECURSIVE SumScores(_, _)
SumScores(rows, i) ==
    IF i > Len(rows) THEN 0
    ELSE rows[i].compatibility_score + SumScores(rows, i + 1)

\* matching service GET /stats (the mean is cut to a whole thousandth)
SvcGetMatchingStats ==
    /\ deployment = "services"
    /\ resp = Idle
    /\ resp' = [op |-> "stats", status |-> "ok",
                total_profiles |-> Len(SelectSeq(svcProfiles, LAMBDA r : r.is_active)),
                total_matches |-> Len(matchHistory),
                average_compatibility_score |->
                    IF matchHistory = <<>> THEN 0
                    ELSE SumScores(matchHistory, 1) \div Len(matchHistory)]
    /\ UNCHANGED <<deployment, profiles, svcProfiles, matchHistory, session, gatewayVars>>

\* matching service POST /calculate-compatibility
SvcCalculateCompatibility(profile1, profile2, faulty) ==
    /\ deployment = "services"
    /\ resp = Idle
    /\ resp' = [op |-> "calculate_compatibility", status |-> "ok",
                profile1 |-> profile1, profile2 |-> profile2, faulty |-> faulty,
                result |-> calculate_compatibility_score(profile1, profile2, faulty)]
    /\ UNCHANGED <<deployment, profiles, svcProfiles, matchHistory, session, gatewayVars>>

\* the client reads the response; the next request follows
Deliver ==
    /\ resp # Idle
    /\ resp' = Idle
    /\ UNCHANGED <<deployment, profiles, svcProfiles, matchHistory, session, gatewayVars>>

Next ==
    \/ \E p \in ProfileInputs : BeCreateProfile(p)
    \/ \E q \in QueryInputs :
         \E fault \in {NoFault} \cup EmbedFaults(Len(profiles) + 1) :
           BeMatch(q, fault)
    \/ \E q \in QueryInputs : \E limit \in Limits :
         \E fault \in {NoFault} \cup EmbedFaults(Len(profiles)) :
           BeEngineFindMatches(q, limit, fault)
    \/ \E u \in Users : \E p \in ProfileInputs : SvcCreateProfile(u, p)
    \/ \E u \in Users : \E q \in QueryInputs : \E mm \in MaxMatchesInputs :
         \E fault \in {NoFault, CommitFault}
                        \cup EmbedFaults(Len(SvcCandidates(svcProfiles, u))) :
           SvcMatch(u, q, mm, fault)
    \/ Deliver

Spec == Init /\ [][Next]_vars

\* ------------------------------------------------- the profile lifecycle
\* The profile and the matching service open the same database
\* (config["database_url"]) and map the same table user_profiles.  The
\* handlers are coroutines without an await: the event loop of the one
\* server process runs each of them to its end before the next, so requests
\* that are under way at the same time are handled one after the other, in
\* any order.
LifeUsers == {1, 2}

LifeProfileInputs ==
    { [zip_code |-> "75201", rent_budget_min |-> 600, rent_budget_max |-> 800,
       lifestyle_description |-> "quiet home",
       pet_preference |-> "Yes", smoking_preference |-> "No"],
      [zip_code |-> "75201", rent_budget_min |-> 700, rent_budget_max |-> 900,
       lifestyle_description |-> "calm nights",
       pet_preference |-> "No", smoking_preference |-> "No"],
      [zip_code |-> "75201", rent_budget_min |-> 1000, rent_budget_max |-> 500,
       lifestyle_description |-> "quiet home",
       pet_preference |-> "Yes", smoking_preference |-> "No"] }

LifeQuery ==
    [zip_code |-> "75201", rent_budget_min |-> 600, rent_budget_max |-> 800,
     lifestyle_description |-> "quiet home",
     pet_preference |-> "Yes", smoking_preference |-> "No"]

LifecycleInit ==
    /\ deployment = "services"
    /\ profiles = <<>>
    /\ svcProfiles = <<>>
    /\ matchHistory = <<>>
    /\ resp = Idle
    /\ session = NoSession
    /\ GatewayInit

LifecycleNext ==
    \/ \E u \in LifeUsers : \E p \in LifeProfileInputs : SvcCreateProfile(u, p)
    \/ \E u \in LifeUsers : SvcGetMyProfile(u)
    \/ \E u \in LifeUsers : \E p \in LifeProfileInputs : SvcUpdateProfile(u, p)
    \/ \E u \in LifeUsers : SvcUpdateSocialLinks(u, "https://instagram.com/u")
    \/ \E u \in LifeUsers : SvcDeleteProfile(u)
    \/ \E u \in LifeUsers : SvcMatch(u, LifeQuery, DefaultLimit, NoFault)
    \/ Deliver

LifecycleSpec == LifecycleInit /\ [][LifecycleNext]_vars

\* -------------------------------------- requests with edge-case inputs
\* profiles and queries with rent_budget_min > rent_budget_max and with a
\* negative budget; limits outside 1..20; pages and page sizes that are not
\* positive
ReqUsers == Users

ReqProfileInputs ==
    { [zip_code |-> "75201", rent_budget_min |-> 600, rent_budget_max |-> 800,
       lifestyle_description |-> "quiet home",
       pet_preference |-> "Yes", smoking_preference |-> "No"],
      [zip_code |-> "10001", rent_budget_min |-> 1000, rent_budget_max |-> 1200,
       lifestyle_description |-> "calm nights",
       pet_preference |-> "No", smoking_preference |-> "No"],
      [zip_code |-> "75201", rent_budget_min |-> 1000, rent_budget_max |-> 500,
       lifestyle_description |-> "quiet home",
       pet_preference |-> "Yes", smoking_preference |-> "No"],
      [zip_code |-> "75201", rent_budget_min |-> 0 - 100, rent_budget_max |-> 800,
       lifestyle_description |-> "quiet home",
       pet_preference |-> "Yes", smoking_preference |-> "No"] }

ReqQueryInputs ==
    { [zip_code |-> "75201", rent_budget_min |-> 600, rent_budget_max |-> 800,
       lifestyle_description |-> "quiet home",
       pet_preference |-> "Yes", smoking_preference |-> "No"],
      [zip_code |-> "75201", rent_budget_min |-> 1000, rent_budget_max |-> 500,
       lifestyle_description |-> "quiet home",
       pet_preference |-> "Yes", smoking_preference |-> "No"] }

ReqLimits == {0, DefaultLimit}
ReqMaxMatches == {0, 1, DefaultLimit, LimitMax + 1}
ReqPages == {0, 1, 2}
ReqPerPages == {0 - 1, 0, 1, 2}

\* one request is handled at a time: a request begins when no session is open
RequestsNext ==
    \/ \E p \in ReqProfileInputs : session = NoSession /\ BeCreateProfile(p)
    \/ \E q \in ReqQueryInputs : \E fault \in {NoFault, ReadFault} :
         session = NoSession /\ BeMatch(q, fault)
    \/ \E q \in ReqQueryInputs : \E limit \in ReqLimits :
         \E fault \in {NoFault, ReadFault} :
           session = NoSession /\ BeEngineFindMatches(q, limit, fault)
    \/ \E u \in ReqUsers : \E p \in ReqProfileInputs :
         session = NoSession /\ SvcCreateProfile(u, p)
    \/ \E u \in ReqUsers : \E page \in ReqPages : \E per_page \in ReqPerPages :
         session = NoSession /\ SvcGetMatchHistory(u, page, per_page)
    \/ session = NoSession /\ SvcGetMatchingStats
    \/ \E u \in ReqUsers : \E q \in ReqQueryInputs : \E mm \in ReqMaxMatches :
         \E fault \in {NoFault, ReadFault, CommitFault} :
           SvcMatchBegin(u, q, mm, fault)
    \/ SvcMatchAdd
    \/ SvcMatchCommit
    \/ SvcMatchAbort
    \/ Deliver

RequestsSpec == Init /\ [][RequestsNext]_vars

\* ------------------------ calls that neither read nor write the tables
\* budgets given to check_budget_match: a negative one and a ladder of
\* hundreds, so that ranges overlap, touch, are apart, and are inverted
BudgetValues == {0 - 100} \cup {600 + 100 * k : k \in 0..MaxBudgetSteps}

\* the dictionaries posted to /calculate-compatibility: well formed, with an
\* inverted budget, with a text that embeds to the zero vector, with a
\* budget that is null, without the preference keys
DictInputs ==
    ReqQueryInputs \cup
    { [zip_code |-> "75201", rent_budget_min |-> 600, rent_budget_max |-> 800,
       lifestyle_description |-> "zzzzzzzzzz",
       pet_preference |-> "Yes", smoking_preference |-> "No"],
      [zip_code |-> "75201", rent_budget_min |-> 600, rent_budget_max |-> None,
       lifestyle_description |-> "quiet home",
       pet_preference |-> "Yes", smoking_preference |-> "No"],
      [zip_code |-> "75201", rent_budget_min |-> 600, rent_budget_max |-> 800,
       lifestyle_description |-> "quiet home"] }

\* ------------------------------------------------- profile serialization
\* A field value is a str or a member of one of the (str, Enum) classes of
\* shared/models.py.  `value` is what == compares (a member equals the str
\* of its value), `repr` is "Class.MEMBER".
Str(s) == [kind |-> "str", value |-> s, repr |-> s]

EnumMember(class, value) ==
    [kind |-> "enum", value |-> value,
     repr |-> CASE class = "SleepSchedule" /\ value = "Early Bird" -> "SleepSchedule.EARLY_BIRD"
                [] class = "SleepSchedule" /\ value = "Night Owl" -> "SleepSchedule.NIGHT_OWL"
                [] class = "SleepSchedule" /\ value = "Flexible" -> "SleepSchedule.FLEXIBLE"
                [] class = "CleanlinessLevel" /\ value = "Very Clean" -> "CleanlinessLevel.VERY_CLEAN"
                [] class = "CleanlinessLevel" /\ value = "Moderately Clean" -> "CleanlinessLevel.MODERATELY_CLEAN"
                [] class = "CleanlinessLevel" /\ value = "Relaxed" -> "CleanlinessLevel.RELAXED"
                [] class = "NoiseTolerance" /\ value = "Quiet" -> "NoiseTolerance.QUIET"
                [] class = "NoiseTolerance" /\ value = "Moderate" -> "NoiseTolerance.MODERATE"
                [] class = "NoiseTolerance" /\ value = "Loud OK" -> "NoiseTolerance.LOUD_OK"
                [] class = "Preference" /\ value = "Yes" -> "Preference.YES"
                [] class = "Preference" /\ value = "No" -> "Preference.NO"
                [] class = "Preference" /\ value = "Either" -> "Preference.EITHER"
                [] OTHER -> value]

\* the serialized fields, in the order of the template
SerializedFields ==
    <<"occupation", "sleep_schedule", "cleanliness_level", "noise_tolerance",
      "hobbies", "pet_preference", "smoking_preference", "lifestyle_description">>

FieldLabels ==
    <<"Occupation: ", "Sleep Schedule: ", "Cleanliness: ", "Noise Tolerance: ",
      "Hobbies: ", "Pet Preference: ", "Smoking Preference: ", "Lifestyle: ">>

\* the classes of the enumerated fields of BaseUserProfile
EnumClassOf ==
    [sleep_schedule |-> "SleepSchedule", cleanliness_level |-> "CleanlinessLevel",
     noise_tolerance |-> "NoiseTolerance", pet_preference |-> "Preference",
     smoking_preference |-> "Preference"]

\* backend schemas.UserProfileCreate: every field is a str
BeParse(form) == [f \in DOMAIN form |-> Str(form[f])]

\* shared models.UserProfileCreate followed by .dict(): the enumerated fields
\* are members of their classes (use_enum_values is not set)
SvcParse(form) ==
    [f \in DOMAIN form |->
        IF f \in DOMAIN EnumClassOf THEN EnumMember(EnumClassOf[f], form[f])
        ELSE Str(form[f])]

\* the row read back from user_profiles: the backend stores profile.dict(),
\* the profile service stores the .value of the enumerated fields; every
\* column is a string (the forms hold none of the characters that
\* sanitize_input removes)
StoredRow(form) == [f \in DOMAIN form |-> Str(form[f])]

\* f"{value}": format() of a member of a (str, Enum) class is its value up to
\* Python 3.10 and "Class.MEMBER" from Python 3.11 on
Format(v, enum_format) ==
    IF v.kind = "enum" /\ enum_format = "name" THEN v.repr ELSE v.value

\* dict.get(key, default)
DictGet(d, key, default) == IF key \in DOMAIN d THEN d[key] ELSE default

\* the f-string template shared by the three functions, as the sequence of
\* its labels and formatted values (the inputs carry no leading or trailing
\* white space for strip() to remove)
RECURSIVE TemplateLines(_, _, _)
TemplateLines(profile, enum_format, i) ==
    IF i > Len(SerializedFields) THEN <<>>
    ELSE <<FieldLabels[i],
           Format(DictGet(profile, SerializedFields[i], Str("")), enum_format)>>
         \o TemplateLines(profile, enum_format, i + 1)

\* create_profile_text(profile: UserProfile), both engines
create_profile_text(profile, enum_format) ==
    TemplateLines(profile, enum_format, 1)

\* backend create_profile_text_from_create(profile: UserProfileCreate)
create_profile_text_from_create(profile, enum_format) ==
    TemplateLines(profile, enum_format, 1)

\* service create_profile_text_from_dict(profile_data: dict)
create_profile_text_from_dict(profile_data, enum_format) ==
    TemplateLines(profile_data, enum_format, 1)

\* submitted forms: they differ in serialized fields and in a field that is
\* not serialized
TextForms ==
    { [name |-> name, occupation |-> "Engineer", sleep_schedule |-> sleep,
       cleanliness_level |-> "Very Clean", noise_tolerance |-> "Quiet",
       hobbies |-> "chess", pet_preference |-> pet, smoking_preference |-> "No",
       lifestyle_description |-> "quiet home"] :
      name \in {"Ann", "Bob"}, sleep \in {"Early Bird", "Night Owl"},
      pet \in {"Yes", "Either"} }

\* the build's Python: format() of a (str, Enum) member gives its value or
\* its name
EnumFormats == {"value", "name"}

\* the texts given to calculate_ai_similarity
SimilarityTexts == {"quiet home", "calm nights", "social life", "zzzzzzzzzz"}

PureInit ==
    /\ deployment \in {"backend", "services"}
    /\ profiles = <<>>
    /\ svcProfiles = <<>>
    /\ matchHistory = <<>>
    /\ session = NoSession
    /\ GatewayInit
    /\ resp \in {Idle} \cup
                { [op |-> "check_budget_match", status |-> "called",
                   args |-> <<min1, max1, min2, max2>>, result |-> FALSE] :
                  min1 \in BudgetValues, max1 \in BudgetValues,
                  min2 \in BudgetValues, max2 \in BudgetValues }

\* a call of MatchingEngine.check_budget_match
CheckBudgetMatch ==
    /\ resp.op = "check_budget_match"
    /\ resp.status = "called"
    /\ resp' = [resp EXCEPT !.status = "returned",
                            !.result = check_budget_match(resp.args[1], resp.args[2],
                                                          resp.args[3], resp.args[4])]
    /\ UNCHANGED <<deployment, profiles, svcProfiles, matchHistory, session, gatewayVars>>

\* a call of the backend's MatchingEngine.calculate_ai_similarity; an
\* exception of the embedder leaves the call
BeCalculateAiSimilarity(text1, text2, faulty) ==
    /\ deployment = "backend"
    /\ resp = Idle
    /\ LET r == BeAiSimilarity(<<"Lifestyle:", text1>>, <<"Lifestyle:", text2>>, faulty)
       IN  resp' = [op |-> "calculate_ai_similarity",
                    status |-> IF r.raised THEN "raised" ELSE "returned",
                    encode |-> Encode(text1, text2, faulty).kind,
                    result |-> r.value]
    /\ UNCHANGED <<deployment, profiles, svcProfiles, matchHistory, session, gatewayVars>>

\* a call of the matching service's MatchingEngine.calculate_ai_similarity
SvcCalculateAiSimilarity(text1, text2, faulty) ==
    /\ deployment = "services"
    /\ resp = Idle
    /\ resp' = [op |-> "calculate_ai_similarity", status |-> "returned",
                encode |-> Encode(text1, text2, faulty).kind,
                result |-> SvcAiSimilarity(<<"Lifestyle:", text1>>,
                                           <<"Lifestyle:", text2>>, faulty)]
    /\ UNCHANGED <<deployment, profiles, svcProfiles, matchHistory, session, gatewayVars>>

\* the two texts the backend's find_matches compares: the query as
\* UserProfileCreate, the candidate as a row
BeSerialize(query, stored, enum_format) ==
    /\ deployment = "backend"
    /\ resp = Idle
    /\ resp' = [op |-> "create_profile_text", status |-> "returned",
                query |-> query, stored |-> stored, enum_format |-> enum_format,
                query_text |-> create_profile_text_from_create(BeParse(query),
                                                               enum_format),
                stored_text |-> create_profile_text(StoredRow(stored), enum_format)]
    /\ UNCHANGED <<deployment, profiles, svcProfiles, matchHistory, session, gatewayVars>>

\* the two texts the service's calculate_compatibility_score compares in
\* POST /match: the query as user_profile.dict(), the candidate as the
\* dictionary built from its row
SvcSerialize(query, stored, enum_format) ==
    /\ deployment = "services"
    /\ resp = Idle
    /\ resp' = [op |-> "create_profile_text", status |-> "returned",
                query |-> query, stored |-> stored, enum_format |-> enum_format,
                query_text |-> create_profile_text_from_dict(SvcParse(query),
                                                             enum_format),
                stored_text |-> create_profile_text_from_dict(StoredRow(stored),
                                                              enum_format)]
    /\ UNCHANGED <<deployment, profiles, svcProfiles, matchHistory, session, gatewayVars>>

PureNext ==
    \/ CheckBudgetMatch
    \/ \E query \in TextForms : \E stored \in TextForms : \E fmt \in EnumFormats :
         BeSerialize(query, stored, fmt)
    \/ \E query \in TextForms : \E stored \in TextForms : \E fmt \in EnumFormats :
         SvcSerialize(query, stored, fmt)
    \/ \E t1 \in SimilarityTexts : \E t2 \in SimilarityTexts : \E faulty \in BOOLEAN :
         BeCalculateAiSimilarity(t1, t2, faulty)
    \/ \E t1 \in SimilarityTexts : \E t2 \in SimilarityTexts : \E faulty \in BOOLEAN :
         SvcCalculateAiSimilarity(t1, t2, faulty)
    \/ \E p1 \in DictInputs : \E p2 \in DictInputs \cup ProfileInputs :
         \E faulty \in BOOLEAN :
         SvcCalculateCompatibility(p1, p2, faulty)

PureSpec == PureInit /\ [][PureNext]_vars

\* ------------------------------------------------------------ rate limiting
\* The clock counts half seconds: time.time() and datetime.utcnow() tell
\* fractions of a second, int(time.time()) tells the second.
TicksPerSecond == 2

\* the limit is reached only when more than `limit` requests are kept
MemoryRateLimitOffByOne(memory_store, key, limit, window, current_time) ==
    LET window_start == current_time - window * TicksPerSecond
        old == IF key \in DOMAIN memory_store THEN memory_store[key] ELSE <<>>
        kept == SelectSeq(old, LAMBDA req_time : req_time > window_start)
    IN  IF Len(kept) > limit
        THEN [allowed |-> FALSE, memory_store |-> (key :> kept) @@ memory_store]
        ELSE [allowed |-> TRUE,
              memory_store |-> (key :> Append(kept, current_time)) @@ memory_store]

\* gateway RateLimiter._memory_rate_limit(key, limit, window) called at
\* current_time: the decision and the store it leaves
memory_rate_limit(memory_store, key, limit, window, current_time) ==
    LET window_start == current_time - window * TicksPerSecond
        old == IF key \in DOMAIN memory_store THEN memory_store[key] ELSE <<>>
        kept == SelectSeq(old, LAMBDA req_time : req_time > window_start)
    IN  IF Len(kept) >= limit
        THEN [allowed |-> FALSE, memory_store |-> (key :> kept) @@ memory_store]
        ELSE [allowed |-> TRUE,
              memory_store |-> (key :> Append(kept, current_time)) @@ memory_store]

\* utils.RateLimiter.is_allowed(key, limit, window) called at `current`
\* (datetime.utcnow())
is_allowed(requests, key, limit, window, current) ==
    LET window_start == current - window * TicksPerSecond
        cleaned == IF key \in DOMAIN requests
                   THEN SelectSeq(requests[key], LAMBDA req_time : req_time > window_start)
                   ELSE <<>>
    IN  IF Len(cleaned) >= limit
        THEN [allowed |-> FALSE, requests |-> (key :> cleaned) @@ requests]
        ELSE [allowed |-> TRUE,
              requests |-> (key :> Append(cleaned, current)) @@ requests]

\* the sorted set stored under a key of the Redis server at second
\* `second`: its members with their scores, none once the key has expired
ZSetAt(zsets, key, second) ==
    IF key \in DOMAIN zsets /\ second < zsets[key].expire_at
    THEN zsets[key].members ELSE {}

\* gateway RateLimiter._redis_rate_limit(key, limit, window) called at
\* current_time = int(time.time()): the pipeline ZREMRANGEBYSCORE key 0
\* window_start, ZCARD key, ZADD key {str(current_time): current_time},
\* EXPIRE key window.  A member is the decimal string of its second (here
\* the second itself); ZADD of a member the set holds only sets its score.
\* When the pipeline raises the request is allowed.
redis_rate_limit(zsets, key, limit, window, current_time, faulty) ==
    LET window_start == current_time - window
        removed == {e \in ZSetAt(zsets, key, current_time) :
                      ~(e.score >= 0 /\ e.score <= window_start)}
        current_count == Cardinality(removed)
        added == {e \in removed : e.member # current_time}
                 \cup {[member |-> current_time, score |-> current_time]}
    IN  IF faulty THEN [allowed |-> TRUE, zsets |-> zsets]
        ELSE [allowed |-> current_count < limit,
              zsets |-> (key :> [members |-> added,
                                 expire_at |-> current_time + window]) @@ zsets]

\* the keys the limiters are called with: rate_limit:{client_ip}:{user_id}
RateKeys == {"rate_limit:10.0.0.1:anonymous", "rate_limit:10.0.0.1:1"}

\* time passes
Tick ==
    /\ now < MaxTime
    /\ now' = now + 1
    /\ UNCHANGED <<deployment, profiles, svcProfiles, matchHistory, resp, session,
                   inflight, rate_limiter, redis, decisions>>

\* gateway RateLimiter.is_allowed(key, limit, window): the decision, and
\* the limiter and the Redis server as the call leaves them
RateLimiterIsAllowed(key, faulty) ==
    IF rate_limiter.redis_client
    THEN LET r == redis_rate_limit(redis, key, RateLimit, RateWindow,
                                   now \div TicksPerSecond, faulty)
         IN  [allowed |-> r.allowed, limiter |-> "redis",
              rate_limiter |-> rate_limiter, redis |-> r.zsets]
    ELSE LET r == memory_rate_limit(rate_limiter.memory_store, key, RateLimit,
                                    RateWindow, now)
         IN  [allowed |-> r.allowed, limiter |-> "memory",
              rate_limiter |-> [rate_limiter EXCEPT !.memory_store = r.memory_store],
              redis |-> redis]

\* a call of the gateway limiter on its own
GatewayIsAllowed(key, faulty) ==
    /\ rate_limiter.class = "gateway"
    /\ Len(decisions) < MaxRequests
    /\ faulty => rate_limiter.redis_client
    /\ LET r == RateLimiterIsAllowed(key, faulty)
       IN  /\ rate_limiter' = r.rate_limiter
           /\ redis' = r.redis
           /\ decisions' = Append(decisions,
                  [limiter |-> r.limiter, key |-> key, time |-> now,
                   allowed |-> r.allowed, faulty |-> faulty])
    /\ UNCHANGED <<deployment, profiles, svcProfiles, matchHistory, resp, session,
                   inflight, now>>

\* the limiter of the rate_limit decorator
UtilsIsAllowed(key) ==
    /\ rate_limiter.class = "utils"
    /\ Len(decisions) < MaxRequests
    /\ LET r == is_allowed(rate_limiter.requests, key, RateLimit, RateWindow, now)
       IN  /\ rate_limiter' = [rate_limiter EXCEPT !.requests = r.requests]
           /\ decisions' = Append(decisions,
                  [limiter |-> "memory", key |-> key, time |-> now,
                   allowed |-> r.allowed, faulty |-> FALSE])
    /\ UNCHANGED <<deployment, profiles, svcProfiles, matchHistory, resp, session,
                   inflight, now, redis>>

\* the limiter objects as constructed: the gateway's with or without a
\* Redis connection, the decorator's
RateInit ==
    /\ deployment = "services"
    /\ profiles = <<>>
    /\ svcProfiles = <<>>
    /\ matchHistory = <<>>
    /\ resp = Idle
    /\ session = NoSession
    /\ inflight = {}
    /\ now = 0
    /\ rate_limiter \in {NoRateLimiter,
                          [NoRateLimiter EXCEPT !.redis_client = TRUE],
                          [class |-> "utils", requests |-> <<>>]}
    /\ redis = <<>>
    /\ decisions = <<>>

RateNext ==
    \/ Tick
    \/ \E key \in RateKeys : \E faulty \in BOOLEAN : GatewayIsAllowed(key, faulty)
    \/ \E key \in RateKeys : UtilsIsAllowed(key)

RateSpec == RateInit /\ [][RateNext]_vars

\* ------------------------------------------------------------------ gateway
\* Headers are lists of <<name, value>>.  The ASGI server hands the names of
\* a received request in lower case.
Lower(name) ==
    CASE name = "X-User-ID" -> "x-user-id"
      [] name = "X-User-Email" -> "x-user-email"
      [] name = "Authorization" -> "authorization"
      [] OTHER -> name

\* starlette Headers.get(key, default): the value of the first header
\* whose name equals key without regard to case
HeadersGet(headers, key, default) ==
    LET hits == {i \in 1..Len(headers) : Lower(headers[i][1]) = Lower(key)}
    IN  IF hits = {} THEN default
        ELSE headers[CHOOSE i \in hits : \A j \in hits : i <= j][2]

\* headers[key] = value on a Python dict: the key is matched exactly
DictSet(headers, key, value) ==
    IF \E i \in 1..Len(headers) : headers[i][1] = key
    THEN [i \in 1..Len(headers) |->
            IF headers[i][1] = key THEN <<key, value>> ELSE headers[i]]
    ELSE Append(headers, <<key, value>>)

\* headers.pop(key, None)
DictPop(headers, key) == SelectSeq(headers, LAMBDA h : h[1] # key)

\* the Authorization values a client sends, and authorization.split(" ")[1]
BearerToken ==
    [x \in {"Bearer tok-1", "Bearer tok-2", "Bearer expired", "Bearer garbage"} |->
       CASE x = "Bearer tok-1" -> "tok-1"
         [] x = "Bearer tok-2" -> "tok-2"
         [] x = "Bearer expired" -> "expired"
         [] OTHER -> "garbage"]

\* jwt.decode of the tokens the auth service issued (payload user_id, email)
IssuedTokens ==
    [t \in {"tok-1", "tok-2"} |->
       IF t = "tok-1" THEN [user_id |-> 1, email |-> "ann@example.com"]
       ELSE [user_id |-> 2, email |-> "bob@example.com"]]

\* utils.verify_token: the payload; 401 for an expired token; for any other
\* undecodable token the handler `except jwt.JWTError` names an attribute
\* the imported jwt module lacks, and the request ends as a server error
verify_token(token) ==
    IF token \in DOMAIN IssuedTokens
    THEN [status |-> 200, payload |-> IssuedTokens[token]]
    ELSE IF token = "expired" THEN [status |-> 401, detail |-> "Token has expired"]
    ELSE [status |-> 500, detail |-> "Internal Server Error"]

\* gateway authenticate_request for a path outside skip_auth_paths
authenticate_request(headers) ==
    LET authorization == HeadersGet(headers, "Authorization", NoValue)
    IN  IF authorization \notin DOMAIN BearerToken
        THEN [status |-> 401, detail |-> "Authentication required"]
        ELSE verify_token(BearerToken[authorization])

\* the routes of the gateway to /match, /match-history and /profiles
GatewayRoutes ==
    { [method |-> "POST", path |-> "/match", service |-> "matching-service"],
      [method |-> "GET", path |-> "/match-history", service |-> "matching-service"],
      [method |-> "POST", path |-> "/profiles", service |-> "profile-service"] }

\* the header lists of client requests as the gateway receives them
ClientHeaders ==
    { <<<<"host", "gateway">>>> \o auth \o xuid :
        auth \in {<<>>, <<<<"authorization", "Basic abc">>>>,
                  <<<<"authorization", "Bearer tok-1">>>>,
                  <<<<"authorization", "Bearer expired">>>>,
                  <<<<"authorization", "Bearer garbage">>>>},
        xuid \in {<<>>, <<<<"x-user-id", "1">>>>, <<<<"x-user-id", "2">>>>} }

\* route_to_service: the headers sent on: dict(request.headers) without
\* host, with X-User-ID and X-User-Email of the token's payload
RouteHeaders(request_headers, auth_info) ==
    DictSet(DictSet(DictPop(request_headers, "host"),
                    "X-User-ID", ToString(auth_info.user_id)),
            "X-User-Email", auth_info.email)

\* a request on a gateway route: rate_limit_middleware, then the route's
\* handler with route_to_service, which sends the request on or answers
\* with the error of authenticate_request
GatewayRequest(route, headers, faulty) ==
    /\ rate_limiter.class = "gateway"
    /\ inflight = {}
    /\ faulty => rate_limiter.redis_client
    /\ LET r == RateLimiterIsAllowed(
                  "rate_limit:10.0.0.1:"
                    \o HeadersGet(headers, "X-User-ID", "anonymous"),
                  faulty)
           auth == authenticate_request(headers)
       IN  /\ rate_limiter' = r.rate_limiter
           /\ redis' = r.redis
           /\ IF ~r.allowed
              THEN /\ resp' = [op |-> "gateway", route |-> route, status |-> 429,
                               detail |-> "Rate limit exceeded"]
                   /\ UNCHANGED inflight
              ELSE IF auth.status # 200
              THEN /\ resp' = [op |-> "gateway", route |-> route,
                               status |-> auth.status, detail |-> auth.detail]
                   /\ UNCHANGED inflight
              ELSE /\ inflight' = {[route |-> route,
                                     headers |-> RouteHeaders(headers, auth.payload)]}
                   /\ resp' = [op |-> "gateway", route |-> route, status |-> 0,
                               detail |-> "awaiting the service"]
    /\ UNCHANGED <<deployment, profiles, svcProfiles, matchHistory, session, now,
                   decisions>>

\* the service receives the request sent on and takes the caller's
\* identity: get_user_id_from_token of the matching and profile services
GetUserIdFromToken(msg) ==
    /\ msg \in inflight
    /\ inflight' = inflight \ {msg}
    /\ LET user_id == HeadersGet(msg.headers, "X-User-ID", NoValue)
       IN  resp' = IF user_id = NoValue
                   THEN [op |-> "get_user_id_from_token", status |-> 401,
                         request |-> msg, user_id |-> None]
                   ELSE [op |-> "get_user_id_from_token", status |-> 200,
                         request |-> msg,
                         user_id |-> CHOOSE n \in 0..9 : ToString(n) = user_id]
    /\ UNCHANGED <<deployment, profiles, svcProfiles, matchHistory, session,
                   now, rate_limiter, redis, decisions>>

\* the gateway as started, with or without a Redis connection
GatewayStart ==
    /\ deployment = "services"
    /\ profiles = <<>>
    /\ svcProfiles = <<>>
    /\ matchHistory = <<>>
    /\ resp = Idle
    /\ session = NoSession
    /\ inflight = {}
    /\ now = 0
    /\ rate_limiter \in {NoRateLimiter, [NoRateLimiter EXCEPT !.redis_client = TRUE]}
    /\ redis = <<>>
    /\ decisions = <<>>

GatewayNext ==
    \/ \E route \in GatewayRoutes : \E headers \in ClientHeaders :
         \E faulty \in BOOLEAN : GatewayRequest(route, headers, faulty)
    \/ \E msg \in inflight : GetUserIdFromToken(msg)

GatewaySpec == GatewayStart /\ [][GatewayNext]_vars

\* ================================================================ claims
MatchOps == {"be_match", "be_find_matches", "svc_match"}

MatchOk == resp.op \in MatchOps /\ resp.status = "ok"

\* the candidate pool of the request that resp answers
Pool ==
    IF resp.op = "svc_match"
    THEN SelectSeq(svcProfiles, LAMBDA r : r.is_active /\ r.user_id # resp.user_id)
    ELSE profiles

\* the results at or above the threshold, in pool order, before the sort
Accepted ==
    IF resp.op = "svc_match"
    THEN SvcLoop(Pool, resp.query, resp.fault, 1, LoopStart).matches
    ELSE BeLoop(Pool, resp.query, resp.fault, 1, LoopStart).matches

Returned == {resp.matches[i].id : i \in 1..Len(resp.matches)}

\* C1: every entry of a returned match list has a reported
\* compatibility_score of at least 30.
C1_ScoreAtLeastThreshold ==
    MatchOk => \A i \in 1..Len(resp.matches) :
                 resp.matches[i].compatibility_score >= AcceptanceThreshold

\* a request with the default limit that returned some candidates and left
\* others out: the filter discarded them
C1_Witness ==
    /\ MatchOk
    /\ resp.limit = DefaultLimit
    /\ Len(resp.matches) >= 1
    /\ Len(resp.matches) < Len(Pool)

\* C2: the returned list is exactly the first min(limit, k) entries of the
\* sorted accepted list, k the number of accepted candidates, for every limit
\* the call can be given (no entries when min(limit, k) is not positive).
C2_ExactPrefix ==
    MatchOk =>
      resp.matches = SubSeq(SortDesc(Accepted), 1, Min(resp.limit, Len(Accepted)))

\* C3: the returned list is sorted non-increasing by compatibility score.
C3_SortedDescending ==
    MatchOk => \A i, j \in 1..Len(resp.matches) :
                 i < j => resp.matches[i].compatibility_score
                            >= resp.matches[j].compatibility_score

\* two returned candidates of different scores, the later one of the pool
\* first: the sort moved it
C3_Witness ==
    /\ MatchOk
    /\ \E i, j \in 1..Len(resp.matches) :
         /\ i < j
         /\ resp.matches[i].id > resp.matches[j].id
         /\ resp.matches[i].compatibility_score > resp.matches[j].compatibility_score

\* C4: returned candidates of equal score keep the order of the pool, and an
\* accepted candidate that was cut while a candidate of the same score was
\* returned comes later in the pool than the returned one.
C4_StableTies ==
    MatchOk =>
      /\ \A i, j \in 1..Len(resp.matches) :
           (i < j /\ resp.matches[i].compatibility_score
                       = resp.matches[j].compatibility_score)
             => resp.matches[i].id < resp.matches[j].id
      /\ \A i \in 1..Len(resp.matches) : \A k \in 1..Len(Accepted) :
           (Accepted[k].id \notin Returned
              /\ Accepted[k].compatibility_score = resp.matches[i].compatibility_score)
             => resp.matches[i].id < Accepted[k].id

\* two accepted candidates tied for the first place and a limit of one: the
\* earlier one of the pool is the one returned
C4_Witness ==
    /\ MatchOk
    /\ resp.limit = 1
    /\ Len(resp.matches) = 1
    /\ \E k \in 1..Len(Accepted) :
         /\ Accepted[k].id > resp.matches[1].id
         /\ Accepted[k].compatibility_score = resp.matches[1].compatibility_score

\* C5: a successful POST /match of the matching service adds to the match
\* history exactly one entry per returned match, in order, with the caller's
\* user id and the candidate id, score, flags and distance of the returned
\* entry, and nothing else.
C5_HistoryPerReturnedMatch ==
    [][(resp'.op = "svc_match" /\ resp'.status = "ok") =>
         /\ Len(matchHistory') = Len(matchHistory) + Len(resp'.matches)
         /\ SubSeq(matchHistory', 1, Len(matchHistory)) = matchHistory
         /\ \A i \in 1..Len(resp'.matches) :
              LET h == matchHistory'[Len(matchHistory) + i]
                  m == resp'.matches[i]
              IN  /\ h.user_id = resp'.user_id
                  /\ h.matched_user_id = m.id
                  /\ h.compatibility_score = m.compatibility_score
                  /\ h.location_match = m.location_match
                  /\ h.budget_match = m.budget_match
                  /\ h.distance_miles = m.distance_miles]_vars

\* a successful service request that returned a candidate and left another
\* one out; the history holds the returned one only
C5_Witness ==
    /\ resp.op = "svc_match"
    /\ resp.status = "ok"
    /\ Len(resp.matches) >= 1
    /\ Len(resp.matches) < Len(Pool)
    /\ Len(matchHistory) = Len(resp.matches)

\* C6: a failure while persisting the match history is never turned into a
\* request-level error: the request still returns the truncated list.
C6_PersistenceFailureIsSoft ==
    (resp.op = "svc_match" /\ resp.fault.kind = "commit") =>
      /\ resp.status = "ok"
      /\ resp.matches = SubSeq(SortDesc(Accepted), 1, Min(resp.limit, Len(Accepted)))

\* C7: a match request on an empty candidate pool returns an empty list,
\* calls neither the embedder nor the geocoder and appends nothing to the
\* match history.
C7_EmptyPool ==
    [][(/\ resp'.op \in MatchOps
        /\ IF resp'.op = "svc_match"
           THEN \A i \in 1..Len(svcProfiles) :
                  ~svcProfiles[i].is_active \/ svcProfiles[i].user_id = resp'.user_id
           ELSE profiles' = <<>>)
       => /\ resp'.status = "ok"
          /\ resp'.matches = <<>>
          /\ resp'.embedCalls = 0
          /\ resp'.geoCalls = 0
          /\ matchHistory' = matchHistory]_vars

\* the pool of a service request is empty although a profile is stored: the
\* caller's own profile is no candidate
C7_Witness ==
    /\ resp.op = "svc_match"
    /\ svcProfiles # <<>>
    /\ Pool = <<>>
    /\ resp.matches = <<>>
    /\ resp.embedCalls = 0

\* C8 as stated: no match request changes the stored profiles.
C8_MatchNeverChangesProfiles ==
    [][resp'.op \in MatchOps =>
         (profiles' = profiles /\ svcProfiles' = svcProfiles)]_vars

\* C8 as amended: ranking (MatchingEngine.find_matches, service POST /match)
\* never changes the stored profiles; backend POST /api/match inserts exactly
\* one row, the query profile, after the rows already stored and leaves those
\* unchanged.
C8_MatchProfileFrame ==
    [][/\ resp'.op \in {"svc_match", "be_find_matches"} =>
            (profiles' = profiles /\ svcProfiles' = svcProfiles)
       /\ resp'.op = "be_match" =>
            /\ svcProfiles' = svcProfiles
            /\ Len(profiles') = Len(profiles) + 1
            /\ SubSeq(profiles', 1, Len(profiles)) = profiles
            /\ LET row == profiles'[Len(profiles')]
               IN  /\ row.id = Len(profiles')
                   /\ row.zip_code = resp'.query.zip_code
                   /\ row.rent_budget_min = resp'.query.rent_budget_min
                   /\ row.rent_budget_max = resp'.query.rent_budget_max
                   /\ row.lifestyle_description = resp'.query.lifestyle_description
      ]_vars

\* a backend match request on a table that already held a profile
C8_Witness ==
    /\ resp.op = "be_match"
    /\ Len(profiles) >= 2

\* C9: when the embedder raises while a candidate is scored, no error is
\* propagated; the candidate is scored with a semantic similarity of 0 plus
\* its location and budget components.
C9_EmbedderFailureIsSoft ==
    (resp.op \in MatchOps /\ resp.fault.kind = "embed" /\ resp.fault.at <= Len(Pool)) =>
      /\ resp.status = "ok"
      /\ LET c == Pool[resp.fault.at]
             loc == IF resp.op = "svc_match"
                    THEN SvcCheckLocationMatch(resp.query.zip_code, c.zip_code)
                    ELSE BeCheckLocationMatch(resp.query.zip_code, c.zip_code)
             bud == check_budget_match(resp.query.rent_budget_min,
                                       resp.query.rent_budget_max,
                                       c.rent_budget_min, c.rent_budget_max)
         IN  \A i \in 1..Len(resp.matches) :
               resp.matches[i].id = c.id =>
                 resp.matches[i].compatibility_score
                   = RoundTo1(FinalScore(0, loc.match, bud))

\* C10: a fault while one candidate is processed never fails the request:
\* it completes and returns the ranked results of all other candidates.
C10_CandidateFaultIsContained ==
    (resp.op \in MatchOps /\ resp.fault.kind = "embed" /\ resp.fault.at <= Len(Pool)) =>
      /\ resp.status # "error"
      /\ LET others ==
               IF resp.op = "svc_match"
               THEN SvcLoop(Pool, resp.query, NoFault, 1, LoopStart).matches
               ELSE BeLoop(Pool, resp.query, NoFault, 1, LoopStart).matches
         IN  \A k \in 1..Len(others) :
               (others[k].id # Pool[resp.fault.at].id /\ resp.limit >= Len(Pool))
                 => others[k].id \in Returned
\* the stored row of a returned candidate (the primary key is the position)
CandidateRow(id) ==
    IF resp.op = "svc_match" THEN svcProfiles[id] ELSE profiles[id]

\* C11: when the coordinates of either postal code cannot be resolved (a
\* postal code that is not in the lookup table), the result has
\* location_match = false and carries no distance.
C11_UnknownZipNeverMatches ==
    MatchOk =>
      \A i \in 1..Len(resp.matches) :
        LET m == resp.matches[i]
            known == IF resp.op = "svc_match" THEN SvcKnownZips ELSE BeKnownZips
        IN  (resp.query.zip_code \notin known
               \/ CandidateRow(m.id).zip_code \notin known)
              => (~m.location_match /\ m.distance_miles = None)

\* semantic*0.5 + (100 if locationMatch)*0.3 + (100 if budgetMatch)*0.2,
\* clamped to [0,100] and rounded to one decimal place, in thousandths
WeightedScore(semantic, locationMatch, budgetMatch) ==
    RoundTo1(Max(0, Min(100000,
        semantic * 5 + (IF locationMatch THEN 30000 ELSE 0)
                     + (IF budgetMatch THEN 20000 ELSE 0))))

\* the semantic similarity the scorer computed for a returned candidate
SemanticOf(m) ==
    IF resp.op = "svc_match" THEN m.ai_similarity
    ELSE BeAiSimilarity(ProfileText(resp.query), ProfileText(CandidateRow(m.id)),
                        FALSE).value

\* C12: the reported compatibility score of every returned (query,
\* candidate) pair is semantic*0.5 + location*0.3 + budget*0.2, clamped to
\* [0,100] and rounded to one decimal place, in the backend engine and in
\* the matching service.
C12_WeightedScoreRounded ==
    MatchOk =>
      \A i \in 1..Len(resp.matches) :
        LET m == resp.matches[i]
        IN  m.compatibility_score
              = WeightedScore(SemanticOf(m), m.location_match, m.budget_match)

\* C17: POST /api/match issued when no profile is stored returns an empty
\* list, and the query profile saved by the request is never one of its own
\* matches.
C17_EmptyDatabaseNoMatches ==
    [][resp'.op = "be_match" =>
         /\ profiles = <<>> => (resp'.status = "ok" /\ resp'.matches = <<>>)
         /\ \A i \in 1..Len(resp'.matches) :
              resp'.matches[i].id # Len(profiles')]_vars
InRange(score) == score # NaN /\ score >= 0 /\ score <= 100000

\* C13: every compatibility score that a score computation produces (a
\* returned match, a persisted history entry, the result of
\* /calculate-compatibility with its error fallback) lies in [0,100].
C13_ScoreInRange ==
    /\ resp.op \in MatchOps =>
         \A i \in 1..Len(resp.matches) : InRange(resp.matches[i].compatibility_score)
    /\ \A i \in 1..Len(matchHistory) : InRange(matchHistory[i].compatibility_score)
    /\ resp.op = "calculate_compatibility" =>
         InRange(resp.result.compatibility_score)

\* C14: check_budget_match(min1, max1, min2, max2) is true iff
\* max1 >= min2 and max2 >= min1 (ranges that touch overlap), and the result
\* is the same when the two ranges are exchanged.
C14_BudgetOverlap ==
    (resp.op = "check_budget_match" /\ resp.status = "returned") =>
      LET min1 == resp.args[1]
          max1 == resp.args[2]
          min2 == resp.args[3]
          max2 == resp.args[4]
      IN  /\ resp.result = (max1 >= min2 /\ max2 >= min1)
          /\ resp.result = check_budget_match(min2, max2, min1, max1)

\* the ranges [600,700] and [700,800] touch and are found to overlap
C14_Witness ==
    /\ resp.op = "check_budget_match"
    /\ resp.status = "returned"
    /\ resp.args = <<600, 700, 700, 800>>
    /\ resp.result = TRUE

\* C15: a limit given by the caller is clamped into [1,20] before the
\* truncation, so a match request with a limit outside that range still
\* succeeds and returns the first min(clamped limit, k) accepted entries.
C15_LimitClamped ==
    /\ (resp.op \in MatchOps /\ resp.fault = NoFault) => resp.status = "ok"
    /\ MatchOk =>
         resp.matches = SubSeq(SortDesc(Accepted), 1,
                               Min(Max(LimitMin, Min(LimitMax, resp.limit)),
                                   Len(Accepted)))

\* C16: every stored profile and every profile that reaches the ranker has
\* rent_budget_min <= rent_budget_max; a request with an inverted budget is
\* rejected and stores nothing.
C16_BudgetOrdered ==
    /\ \A i \in 1..Len(profiles) :
         profiles[i].rent_budget_min <= profiles[i].rent_budget_max
    /\ \A i \in 1..Len(svcProfiles) :
         svcProfiles[i].rent_budget_min <= svcProfiles[i].rent_budget_max
    /\ session.pc = "adding" =>
         session.query.rent_budget_min <= session.query.rent_budget_max
    /\ (resp.op \in MatchOps /\ resp.status # "invalid") =>
         resp.query.rent_budget_min <= resp.query.rent_budget_max

\* C18: a match request whose candidate listing cannot read the profile
\* table ends in an error, never in a successful response with an empty
\* list, and writes no history entry.
C18_ReadFailureIsFatal ==
    [][(/\ resp'.op \in MatchOps
        /\ resp'.fault.kind = "read"
        /\ resp'.status # "invalid")
       => /\ resp'.status = "error"
          /\ matchHistory' = matchHistory]_vars

\* the table of the service could not be read although it holds candidates
\* for the caller
C18_Witness ==
    /\ resp.op = "svc_match"
    /\ resp.fault.kind = "read"
    /\ resp.status = "error"
    /\ Pool # <<>>
    /\ matchHistory = <<>>

\* C19: the history entries of one match request become visible together,
\* in the step that completes the request successfully, or not at all: no
\* other step of a request changes the history, and a request that ends in
\* an error leaves it unchanged.
C19_HistoryAllOrNothing ==
    [][/\ matchHistory' # matchHistory =>
            /\ resp'.op = "svc_match"
            /\ resp'.status = "ok"
            /\ matchHistory'
                 = matchHistory \o HistoryEntries(resp'.user_id, resp'.matches, 1)
       /\ (resp'.op = "svc_match" /\ resp'.status # "ok") =>
            matchHistory' = matchHistory]_vars

\* a request was aborted after it had added a row to its session, and the
\* table holds no row
C19_Witness ==
    /\ resp.op = "svc_match"
    /\ resp.status = "error"
    /\ resp.fault.kind = "abort"
    /\ resp.fault.at >= 1
    /\ matchHistory = <<>>

\* C20: the match history is append-only (no request removes or changes an
\* entry), and a page of GET /match-history holds only entries of the
\* caller, newest first, at most per_page of them (none when per_page is
\* not positive).
C20_HistoryAppendOnlyAndPaged ==
    [][/\ Len(matchHistory') >= Len(matchHistory)
       /\ SubSeq(matchHistory', 1, Len(matchHistory)) = matchHistory
       /\ (resp'.op = "match_history" /\ resp'.status = "ok") =>
            /\ \A i \in 1..Len(resp'.items) :
                 matchHistory'[resp'.items[i].id].user_id = resp'.user_id
            /\ \A i, j \in 1..Len(resp'.items) :
                 i < j => resp'.items[i].id > resp'.items[j].id
            /\ Len(resp'.items) <= Max(0, resp'.per_page)]_vars

\* C21: calculate_ai_similarity returns 0 when the cosine is undefined (an
\* embedding of zero norm), and in every case a value in [0,100], never NaN
\* and never 100 for an undefined cosine.
C21_ZeroNormSimilarityIsZero ==
    (resp.op = "calculate_ai_similarity" /\ resp.status = "returned") =>
      /\ resp.result # NaN
      /\ resp.result >= MinSimilarity
      /\ resp.result <= MaxSimilarity
      /\ resp.encode = "zero" => resp.result = 0

\* the serialized fields of two forms hold equal values
SameSerializedFields(form1, form2) ==
    \A i \in 1..Len(SerializedFields) :
      form1[SerializedFields[i]] = form2[SerializedFields[i]]

\* C22: a query profile and a stored candidate with equal values in the
\* eight serialized fields produce identical text, whichever of
\* create_profile_text, create_profile_text_from_create and
\* create_profile_text_from_dict serializes them, and no other field
\* influences the text.
C22_SerializationSourceIndependent ==
    (resp.op = "create_profile_text"
       /\ SameSerializedFields(resp.query, resp.stored))
      => resp.query_text = resp.stored_text

\* the texts of the reasons of the /calculate-compatibility result
ReasonTexts ==
    [i \in 1..Len(resp.result.match_reasons) |-> resp.result.match_reasons[i].text]

HasReason(text) == \E i \in 1..Len(ReasonTexts) : ReasonTexts[i] = text

ReasonOrder ==
    <<"High lifestyle compatibility", "Close proximity", "Budget compatibility",
      "Pet preference match", "Smoking preference match">>

ReasonRank(text) == CHOOSE k \in 1..Len(ReasonOrder) : ReasonOrder[k] = text

\* both dictionaries carry the preference and the two values are equal
SamePreference(key) ==
    /\ key \in DOMAIN resp.profile1
    /\ key \in DOMAIN resp.profile2
    /\ resp.profile1[key] = resp.profile2[key]

\* C23: the match reasons hold "High lifestyle compatibility" iff the
\* semantic similarity exceeds 70, "Close proximity" iff the location
\* matches, "Budget compatibility" iff the budgets match, "Pet preference
\* match" and "Smoking preference match" iff both profiles carry the same
\* preference, in that relative order; the score is determined by the
\* similarity and the two flags alone.
C23_MatchReasons ==
    resp.op = "calculate_compatibility" =>
      LET r == resp.result
      IN  /\ HasReason("High lifestyle compatibility")
                <=> (r.ai_similarity # NaN /\ r.ai_similarity > 7000)
          /\ HasReason("Close proximity") <=> r.location_match
          /\ HasReason("Budget compatibility") <=> r.budget_match
          /\ HasReason("Pet preference match") <=> SamePreference("pet_preference")
          /\ HasReason("Smoking preference match")
                <=> SamePreference("smoking_preference")
          /\ \A i, j \in 1..Len(ReasonTexts) :
                i < j => ReasonRank(ReasonTexts[i]) < ReasonRank(ReasonTexts[j])
          /\ r.compatibility_score
                = normalize_score(FinalScore(r.ai_similarity, r.location_match,
                                             r.budget_match), MinScore, MaxScore)

\* the candidate at position i of the pool is among the accepted results
Passes(i) == \E k \in 1..Len(Accepted) : Accepted[k].id = Pool[i].id

\* the semantic similarity the engine computes for the candidate at
\* position i of the pool
SemanticAt(i) ==
    LET faulty == resp.fault.kind = "embed" /\ resp.fault.at = i
    IN  IF resp.op = "svc_match"
        THEN SvcAiSimilarity(ProfileText(resp.query), ProfileText(Pool[i]), faulty)
        ELSE BeAiSimilarity(ProfileText(resp.query), ProfileText(Pool[i]),
                            faulty).value

\* C30: with the weights 50/30/20 and the threshold 30, every candidate
\* whose location matches passes the acceptance filter whatever its semantic
\* similarity (0 after an embedding failure included) and its budget flag,
\* and a candidate with neither location nor budget match passes iff its
\* semantic similarity is at least 60.
C30_ThresholdConsequence ==
    (resp.op \in MatchOps /\ resp.status \in {"ok", "error"}
       /\ resp.fault.kind \in {"none", "embed"}) =>
      \A i \in 1..Len(Pool) :
        LET c == Pool[i]
            loc == IF resp.op = "svc_match"
                   THEN SvcCheckLocationMatch(resp.query.zip_code, c.zip_code)
                   ELSE BeCheckLocationMatch(resp.query.zip_code, c.zip_code)
            bud == check_budget_match(resp.query.rent_budget_min,
                                      resp.query.rent_budget_max,
                                      c.rent_budget_min, c.rent_budget_max)
        IN  /\ loc.match => Passes(i)
            /\ (~loc.match /\ ~bud)
                 => (Passes(i) <=> (SemanticAt(i) # NaN /\ SemanticAt(i) >= 6000))

\* the positions of the allowed decisions of `limiter` for the key of
\* decision i whose time lies in the window of `width` ticks that ends with
\* decision i
AllowedInWindow(i, width) ==
    {j \in 1..i : /\ decisions[j].key = decisions[i].key
                  /\ decisions[j].allowed
                  /\ decisions[j].time > decisions[i].time - width}

\* the list a limiter object keeps for a key
StoredTimes(limiter, key) ==
    LET store == IF limiter.class = "utils" THEN limiter.requests
                 ELSE limiter.memory_store
    IN  IF key \in DOMAIN store THEN store[key] ELSE <<>>

C28_RedisLimiter ==
    \A i \in 1..Len(decisions) :
      decisions[i].limiter = "redis" =>
        /\ Cardinality({j \in 1..i :
                          /\ decisions[j].key = decisions[i].key
                          /\ decisions[j].allowed
                          /\ decisions[j].time \div TicksPerSecond
                               > decisions[i].time \div TicksPerSecond - RateWindow})
             <= RateLimit
        /\ (\A j \in 1..(i - 1) :
              decisions[j].key = decisions[i].key =>
                decisions[j].time \div TicksPerSecond
                  <= decisions[i].time \div TicksPerSecond - RateWindow)
             => decisions[i].allowed

\* the payload of the bearer token a request carries, after verification
TokenPayload(headers) == authenticate_request(headers).payload

\* C24: for every request that reaches the matching or profile service
\* through the gateway, the identity the service uses (the X-User-ID it
\* reads) is the user_id of the verified bearer token, whatever X-User-ID
\* header the client supplied; and no request without a valid token is sent
\* on to /match, /match-history or /profiles.
C24_GatewayIdentity ==
    /\ \A msg \in inflight : authenticate_request(msg.headers).status = 200
    /\ resp.op = "get_user_id_from_token" =>
         /\ resp.status = 200
         /\ resp.user_id = TokenPayload(resp.request.headers).user_id

\* the stored profile with the given row id
ProfileRow(id) == CHOOSE r \in {svcProfiles[i] : i \in 1..Len(svcProfiles)} : r.id = id

\* C25: after any sequence of profile create, update and soft-delete
\* requests, a POST /match by caller u returns no profile, and writes no
\* profile to the history, that u owns or whose is_active flag is false.
C25_MatchExcludesOwnAndInactive ==
    [][(resp = Idle /\ resp'.op = "svc_match") =>
         /\ \A i \in 1..Len(resp'.matches) :
              /\ ProfileRow(resp'.matches[i].id).is_active
              /\ ProfileRow(resp'.matches[i].id).user_id # resp'.user_id
         /\ \A k \in (Len(matchHistory) + 1)..Len(matchHistory') :
              /\ matchHistory'[k].user_id = resp'.user_id
              /\ ProfileRow(matchHistory'[k].matched_user_id).is_active
              /\ ProfileRow(matchHistory'[k].matched_user_id).user_id # resp'.user_id
      ]_vars

\* a match request was answered while the caller owned an active profile
\* and another user's profile was soft-deleted
C25_Witness ==
    /\ resp.op = "svc_match"
    /\ resp.status = "ok"
    /\ \E i, j \in 1..Len(svcProfiles) :
         /\ svcProfiles[i].user_id = resp.user_id
         /\ svcProfiles[i].is_active
         /\ svcProfiles[j].user_id # resp.user_id
         /\ ~svcProfiles[j].is_active

\* the body passes the field constraints and validate_profile_data
BodyValid(p) == UserProfileCreateValid(p) /\ validate_profile_data(p)

HasRow(u) == \E i \in 1..Len(svcProfiles) : svcProfiles[i].user_id = u

OneRowPerUser ==
    \A i, j \in 1..Len(svcProfiles) :
      svcProfiles[i].user_id = svcProfiles[j].user_id => i = j

\* C26 as stated: after any interleaving of create requests the table holds
\* at most one row per user_id; a create for a user who already has a row
\* answers "Profile already exists for this user" and leaves the table
\* unchanged.
C26_OneRowPerUser ==
    /\ []OneRowPerUser
    /\ [][\A u \in LifeUsers : \A p \in LifeProfileInputs :
            (HasRow(u) /\ SvcCreateProfile(u, p)) =>
              (svcProfiles' = svcProfiles /\ resp'.status = "exists")]_vars

\* C26 as amended: at most one row per user_id after any interleaving of
\* create requests; a create for a user who already has a row leaves the
\* table unchanged and answers "Profile already exists for this user" when
\* its body passes validation, "Validation failed" when it does not.
C26_OneRowPerUserValidBody ==
    /\ []OneRowPerUser
    /\ [][\A u \in LifeUsers : \A p \in LifeProfileInputs :
            (HasRow(u) /\ SvcCreateProfile(u, p)) =>
              /\ svcProfiles' = svcProfiles
              /\ resp'.status = IF BodyValid(p) THEN "exists" ELSE "invalid"]_vars

\* a second create of a user was refused while the user's row was active
C26_Witness ==
    /\ resp.op = "svc_create"
    /\ resp.status = "exists"
    /\ Len(svcProfiles) = 1
    /\ svcProfiles[1].is_active

\* the user's profile was soft-deleted
Deleted(u) ==
    /\ HasRow(u)
    /\ \A i \in 1..Len(svcProfiles) :
         svcProfiles[i].user_id = u => ~svcProfiles[i].is_active

NeverReactivated ==
    /\ Len(svcProfiles') >= Len(svcProfiles)
    /\ \A i \in 1..Len(svcProfiles) :
         ~svcProfiles[i].is_active => ~svcProfiles'[i].is_active

\* C29 as stated: once a user's profile is soft-deleted, no create, update,
\* social-link update or delete request of the user gives the user an
\* active profile again: create answers "Profile already exists for this
\* user", get, update and delete answer "Profile not found", and is_active
\* never changes from false to true.
C29_DeletedStaysDeleted ==
    [][/\ NeverReactivated
       /\ \A u \in LifeUsers : Deleted(u) =>
            /\ \A i \in 1..Len(svcProfiles') :
                 svcProfiles'[i].user_id = u => ~svcProfiles'[i].is_active
            /\ \A p \in LifeProfileInputs :
                 /\ SvcCreateProfile(u, p) => resp'.status = "exists"
                 /\ SvcUpdateProfile(u, p) => resp'.status = "not_found"
            /\ SvcGetMyProfile(u) => resp'.status = "not_found"
            /\ SvcDeleteProfile(u) => resp'.status = "not_found"
      ]_vars

\* C29 as amended: once a user's profile is soft-deleted the user never has
\* an active profile again and is_active never changes from false to true;
\* a create whose body passes validation answers "Profile already exists
\* for this user", get, delete, social-link update and an update whose body
\* passes validation answer "Profile not found"; a create or update whose
\* body fails validation answers "Validation failed".
C29_DeletedStaysDeletedValidBody ==
    [][/\ NeverReactivated
       /\ \A u \in LifeUsers : Deleted(u) =>
            /\ \A i \in 1..Len(svcProfiles') :
                 svcProfiles'[i].user_id = u => ~svcProfiles'[i].is_active
            /\ \A p \in LifeProfileInputs :
                 /\ SvcCreateProfile(u, p) =>
                      resp'.status = IF BodyValid(p) THEN "exists" ELSE "invalid"
                 /\ SvcUpdateProfile(u, p) =>
                      resp'.status = IF BodyValid(p) THEN "not_found" ELSE "invalid"
            /\ SvcGetMyProfile(u) => resp'.status = "not_found"
            /\ SvcDeleteProfile(u) => resp'.status = "not_found"
            /\ SvcUpdateSocialLinks(u, "https://instagram.com/u") =>
                 resp'.status = "not_found"
      ]_vars

\* a create by the only user, whose profile is soft-deleted, was refused
C29_Witness ==
    /\ resp.op = "svc_create"
    /\ resp.status = "exists"
    /\ Len(svcProfiles) = 1
    /\ ~svcProfiles[1].is_active
=============================================================================
